---- MODULE Spec2Model ----
(***************************************************************************)
(* A model of som/display.go: UMatrixSVG, which renders the U-Matrix of a  *)
(* SOM codebook as an SVG document, and its helper allRowsInRadius.        *)
(*                                                                         *)
(* Numbers.  The code computes in float64.  The model keeps every quantity *)
(* exact:                                                                  *)
(*   - a grid coordinate is a "half surd" [hp, hq], the number             *)
(*     (hp + hq*sqrt(3))/2, which covers the integer and half-integer x    *)
(*     positions and the y positions row*sqrt(0.75) = row*sqrt(3)/2;       *)
(*   - a distance is kept as its square (weight space) or as four times    *)
(*     its square (grid space), both integers;                             *)
(*   - a scaled canvas position is a surd [p, q], the number p+q*sqrt(3);  *)
(*   - the running sum of weight-space distances is a + b*sqrt(2), a the   *)
(*     number of summed distances equal to 1 and b the number equal to     *)
(*     sqrt(2) (weights are 0 or 1 in two dimensions, so a distance is     *)
(*     0, 1 or sqrt(2)).                                                   *)
(* Where binary rounding can move a result across an integer (the product  *)
(* (1 - d/max)*255 being an exact integer), both neighbouring outcomes are *)
(* kept.  A conversion of NaN to int is implementation-dependent in Go:    *)
(* the outcome is the build's choice (nanInt).                             *)
(***************************************************************************)
EXTENDS Integers, Sequences, FiniteSets, TLC

VARIABLES
    pc,             \* position in UMatrixSVG (or in a direct call of a helper)
    uShape,         \* parameter uShape
    coordsDims,     \* parameter coordsDims = <<rows, cols>>
    codebook,       \* parameter codebook: sequence of weight vectors
    sink,           \* what the io.Writer has received
    encErr,         \* the encoder's sticky write error
    ret,            \* the value UMatrixSVG returned ("pending" before it returns)
    distMat,        \* squared weight-space distances, <<>> before computed
    coords,         \* grid coordinates, <<>> before computed
    coordsDistMat,  \* 4 * squared grid-space distances, <<>> before computed
    maxDistance,    \* square of mat64.Max(distMat)
    heap,           \* backing arrays of slices, by address
    svgElem,        \* local svgElem
    elems,          \* local elems
    row,            \* loop variable row (1-based)
    nbrs,           \* local allRowsInRadius
    idx,            \* position of the range loop over allRowsInRadius
    avgDistance,    \* local avgDistance
    color,          \* local color
    nanInt          \* what this build's int(NaN) yields ("unset" before first use)

vars == <<pc, uShape, coordsDims, codebook, sink, encErr, ret, distMat, coords,
          coordsDistMat, maxDistance, heap, svgElem, elems, row, nbrs, idx,
          avgDistance, color, nanInt>>

(***************************************************************************)
(* Bounds of the model.                                                    *)
(***************************************************************************)
\* UMatrixSVG is run on grids of at most MaxUnits units.
MaxUnits == 4
\* allRowsInRadius is called directly on grids of at most MaxGrid x MaxGrid.
MaxGrid == 4
\* The aggregation loop is run directly on at most MaxAggUnits units.
MaxAggUnits == 3

(***************************************************************************)
(* Program constants.                                                      *)
(***************************************************************************)
MUL == 20
OFF == 10
\* 4 * radius^2 * 10^4 for radius = math.Sqrt2*1.01: 4 * 2 * 1.0201 * 10^4.
\* A faulty radius: math.Sqrt2 without the factor 1.01.
RadiusNoSlack == 4 * 2 * 10000

Radius == 81608

Title == "U-Matrix"
WeightVecs == {<<0, 0>>, <<1, 0>>, <<0, 1>>, <<1, 1>>}
Shapes == {"rectangle", "hexagon"}
Rows == coordsDims[1]
Cols == coordsDims[2]
N == Len(codebook)

(***************************************************************************)
(* Collaborators (other files of the package).                             *)
(***************************************************************************)
\* GridCoords: unit i sits in grid row (i-1) \div cols, column (i-1) % cols;
\* x is the column, shifted by half a unit on odd rows of a hexagonal grid;
\* y is the row, scaled by sqrt(0.75) on a hexagonal grid.
GridCoords(shape, dims) ==
    [i \in 1..(dims[1] * dims[2]) |->
        LET r == (i - 1) \div dims[2]
            c == (i - 1) % dims[2]
        IN  IF shape = "hexagon"
            THEN [x |-> [hp |-> 2 * c + (r % 2), hq |-> 0],
                  y |-> [hp |-> 0, hq |-> r]]
            ELSE [x |-> [hp |-> 2 * c, hq |-> 0],
                  y |-> [hp |-> 2 * r, hq |-> 0]]]

\* Four times the squared difference of two half surds whose difference is
\* rational or a rational multiple of sqrt(3) (the only cases that occur).
SqDiff4(c1, c2) ==
    (c1.hp - c2.hp) * (c1.hp - c2.hp) + 3 * (c1.hq - c2.hq) * (c1.hq - c2.hq)

\* DistanceMx("euclidean", coords), as 4 * squared distance.
CoordsDistanceMx(cs) ==
    [i \in 1..Len(cs) |-> [j \in 1..Len(cs) |->
        SqDiff4(cs[i].x, cs[j].x) + SqDiff4(cs[i].y, cs[j].y)]]

\* Distance("euclidean", u, v), as squared distance.
Distance(u, v) ==
    (u[1] - v[1]) * (u[1] - v[1]) + (u[2] - v[2]) * (u[2] - v[2])

\* DistanceMx("euclidean", codebook), as squared distance.
DistanceMx(cb) ==
    [i \in 1..Len(cb) |-> [j \in 1..Len(cb) |-> Distance(cb[i], cb[j])]]

RECURSIVE SetMax(_)
SetMax(S) ==
    IF S = {} THEN 0
    ELSE LET x == CHOOSE y \in S : TRUE
             m == SetMax(S \ {x})
         IN  IF x > m THEN x ELSE m

\* mat64.Max(m), on the squares.
MatMax(m) == SetMax({m[i][j] : i \in 1..Len(m), j \in 1..Len(m)})

(***************************************************************************)
(* allRowsInRadius                                                         *)
(***************************************************************************)
\* dist < radius, on 4 * squares scaled by 10^4.
LessThan(dist4, radius) == dist4 * 10000 < radius

RECURSIVE RowsInRadiusFrom(_, _, _, _)
RowsInRadiusFrom(i, selectedRow, radius, distMatrix) ==
    IF i > Len(distMatrix[selectedRow]) THEN <<>>
    ELSE (IF LessThan(distMatrix[selectedRow][i], radius)
          THEN <<[Row |-> i, Dist |-> distMatrix[selectedRow][i]]>>
          ELSE <<>>)
         \o RowsInRadiusFrom(i + 1, selectedRow, radius, distMatrix)

allRowsInRadius(selectedRow, radius, distMatrix) ==
    RowsInRadiusFrom(1, selectedRow, radius, distMatrix)

(***************************************************************************)
(* Arithmetic of lines 77-92.                                              *)
(***************************************************************************)
\* avgDistance is [kind, a, b, k]: kind "num" is the number
\* (a + b*sqrt(2)) / k, kind "nan" is NaN, kind "inf" is +Inf.
ZeroAvg == [kind |-> "num", a |-> 0, b |-> 0, k |-> 1]

\* avgDistance += cbvDist, cbvDist given by its square.
AddDist(avg, sq) ==
    IF sq = 1 THEN [avg EXCEPT !.a = @ + 1]
    ELSE IF sq = 2 THEN [avg EXCEPT !.b = @ + 1]
    ELSE avg

\* avgDistance /= float64(n): 0/0 is NaN, x/0 is +Inf.
DivideAvg(avg, n) ==
    IF n # 0 THEN [avg EXCEPT !.k = n]
    ELSE IF avg.a = 0 /\ avg.b = 0 THEN [avg EXCEPT !.kind = "nan"]
    ELSE [avg EXCEPT !.kind = "inf"]

\* avgDistance/maxDistance is a number (and not NaN or Inf).
RatioDefined(avg, maxSq) == avg.kind = "num" /\ maxSq # 0

\* 255*(a + b*sqrt(2)) <= m*k*sqrt(maxSq), for maxSq in {1, 2}, decided on
\* integers by squaring.
ScaledRatioLeq(avg, maxSq, m) ==
    IF maxSq = 1
    THEN LET rhs == m * avg.k - 255 * avg.a
         IN  rhs >= 0 /\ 2 * (255 * avg.b) * (255 * avg.b) <= rhs * rhs
    ELSE LET rhs == m * avg.k - 255 * avg.b
         IN  \/ avg.a = 0 /\ rhs >= 0
             \/ rhs > 0 /\ (255 * avg.a) * (255 * avg.a) <= 2 * rhs * rhs

\* 255*(a + b*sqrt(2)) = m*k*sqrt(maxSq).
ScaledRatioEq(avg, maxSq, m) ==
    IF maxSq = 1
    THEN avg.b = 0 /\ 255 * avg.a = m * avg.k
    ELSE avg.a = 0 /\ 255 * avg.b = m * avg.k

\* The least integer m >= 255 * avg/max: (1 - avg/max)*255 lies in
\* (255-m-1, 255-m].
CeilScaledRatio(avg, maxSq) ==
    CHOOSE m \in 0..255 :
        /\ ScaledRatioLeq(avg, maxSq, m)
        /\ \A n \in 0..(m - 1) : ~ScaledRatioLeq(avg, maxSq, n)

\* (1.0 - avgDistance/maxDistance) * 255.0 rounded to the nearest integer:
\* the value lies in [255-m, 255-m+1) and is rounded up from 255-m+1/2 on,
\* that is when 2*255*avg/max <= 2m-1.
RoundedValue(avg, maxSq) ==
    LET m == CeilScaledRatio(avg, maxSq)
        upper == ScaledRatioLeq([avg EXCEPT !.a = 2 * @, !.b = 2 * @], maxSq, 2 * m - 1)
    IN  IF upper THEN 255 - m + 1 ELSE 255 - m

\* The exact value of (1 - avg/max)*255 truncated toward zero (it is >= 0).
TruncatedValue(avg, maxSq) == 255 - CeilScaledRatio(avg, maxSq)

\* The value is an exact integer strictly between 0 and 255: the float64
\* product can fall just below it.
OnInteger(avg, maxSq) ==
    LET m == CeilScaledRatio(avg, maxSq)
    IN  ScaledRatioEq(avg, maxSq, m) /\ 0 < m /\ m < 255

\* A faulty ColorValues: rounds to nearest instead of truncating.
ColorValuesRounded(avg, maxSq) ==
    IF ~RatioDefined(avg, maxSq) THEN {[kind |-> "nan", v |-> 0]}
    ELSE {[kind |-> "int", v |-> RoundedValue(avg, maxSq)]}

\* The float64 operand of the int conversion of line 92, by the integers it
\* can truncate to; kind "nan" when it is NaN or infinite.
ColorValues(avg, maxSq) ==
    IF ~RatioDefined(avg, maxSq) THEN {[kind |-> "nan", v |-> 0]}
    ELSE LET t == TruncatedValue(avg, maxSq)
         IN  {[kind |-> "int", v |-> t]} \cup
             (IF OnInteger(avg, maxSq) THEN {[kind |-> "int", v |-> t - 1]} ELSE {})

\* What a build can yield for int(NaN): the most negative int64 (amd64) or 0
\* (arm64).
NanIntChoices == {"minInt64", "zero"}

\* color := int(f) under the build's conversion ni.
IntOf(f, ni) ==
    IF f.kind = "int" THEN f
    ELSE IF ni = "zero" THEN [kind |-> "int", v |-> 0]
    ELSE [kind |-> "minInt64", v |-> 0]

(***************************************************************************)
(* Geometry of lines 63-72 and 93-107.  A surd [p, q] is p + q*sqrt(3).    *)
(***************************************************************************)
\* scale := func(x) MUL*x + OFF, on a half surd.
scale(c) == [p |-> (MUL \div 2) * c.hp + OFF, q |-> (MUL \div 2) * c.hq]

SurdAdd(s, t) == [p |-> s.p + t.p, q |-> s.q + t.q]
SurdSub(s, t) == [p |-> s.p - t.p, q |-> s.q - t.q]

\* p + q*sqrt(3) >= 0.
SurdGeqZero(s) ==
    \/ s.p >= 0 /\ s.q >= 0
    \/ s.p >= 0 /\ s.q < 0 /\ s.p * s.p >= 3 * s.q * s.q
    \/ s.p < 0 /\ s.q > 0 /\ 3 * s.q * s.q >= s.p * s.p

xOffset == [p |-> MUL \div 2, q |-> 0]

\* 0.5*MUL, or sqrt(0.75)/2*MUL = (MUL/4)*sqrt(3) for a hexagon.
yOffset(shape) ==
    IF shape = "hexagon" THEN [p |-> 0, q |-> MUL \div 4]
    ELSE [p |-> MUL \div 2, q |-> 0]

\* The five points of lines 103-107.
PolygonPoints(coord, shape) ==
    LET x == scale(coord.x)
        y == scale(coord.y)
        xo == xOffset
        yo == yOffset(shape)
    IN  << [x |-> SurdAdd(x, xo), y |-> SurdAdd(y, yo)],
           [x |-> SurdAdd(x, xo), y |-> SurdSub(y, yo)],
           [x |-> SurdSub(x, xo), y |-> SurdSub(y, yo)],
           [x |-> SurdSub(x, xo), y |-> SurdAdd(y, yo)],
           [x |-> SurdAdd(x, xo), y |-> SurdAdd(y, yo)] >>

\* fmt.Sprintf("fill:rgb(%d,%d,%d);stroke:black;stroke-width:1", c, c, c)
Style(c) == [fill |-> <<c, c, c>>, stroke |-> "black", strokeWidth |-> 1]

\* A faulty SvgWidth: takes the row count.
SvgWidthFromRows(dims) == dims[1] * MUL + 2 * OFF

\* float64(coordsDims[1])*MUL + 2*OFF
SvgWidth(dims) == dims[2] * MUL + 2 * OFF

\* float64(coordsDims[0])*MUL + 2*OFF
SvgHeight(dims) == dims[1] * MUL + 2 * OFF

(***************************************************************************)
(* Values and the heap.  A slice is [ptr, len]: ptr the address of its     *)
(* backing array in heap.  Copying a struct copies the slice, not the      *)
(* array.                                                                  *)
(***************************************************************************)
ZeroPolygon == [Points |-> <<>>, Style |-> [fill |-> <<>>, stroke |-> "", strokeWidth |-> 0]]
NilSlice == [ptr |-> 0, len |-> 0]
ZeroSvgElement == [XMLName |-> "svg", Width |-> 0, Height |-> 0, Polygons |-> NilSlice]
NoColor == [kind |-> "int", v |-> 0]

\* make([]polygon, n): a new backing array of n zero polygons.
MakePolygons(h, n) ==
    [heap |-> Append(h, [i \in 1..n |-> ZeroPolygon]),
     slice |-> [ptr |-> Len(h) + 1, len |-> n]]

\* A faulty AppendElem: the appended copy gets its own backing array.
AppendElemDeep(es, h, e) ==
    [elems |-> Append(es, [e EXCEPT !.Polygons.ptr = Len(h) + 1]),
     heap |-> Append(h, h[e.Polygons.ptr])]

\* elems = append(elems, svgElem): the interface value holds a copy of the
\* struct, whose Polygons slice shares the backing array.
AppendElem(es, h, e) == [elems |-> Append(es, e), heap |-> h]

\* What xml.Encoder.Encode(elems) serializes: each element in order, a slice
\* field by the contents of its backing array.
Marshal(es, h) ==
    [i \in 1..Len(es) |->
        IF es[i].XMLName = "svg"
        THEN [XMLName |-> "svg", Width |-> es[i].Width, Height |-> es[i].Height,
              Polygons |-> [j \in 1..es[i].Polygons.len |-> h[es[i].Polygons.ptr][j]]]
        ELSE es[i]]

\* A faulty NewEncoder: the document's opening is written at once.
NewEncoderEager(s) == [state |-> "partial", doc |-> <<>>]

\* xml.NewEncoder(writer) writes nothing.
NewEncoder(s) == s

EmptySink == [state |-> "empty", doc |-> <<>>]

(***************************************************************************)
(* UMatrixSVG                                                              *)
(***************************************************************************)
Grids(maxUnits) ==
    {d \in (1..maxUnits) \X (1..maxUnits) : d[1] * d[2] <= maxUnits}

\* The call: a codebook with one row per grid unit, a unit shape (one of
\* them unknown to GridCoords) and a writer that has received nothing.
Init ==
    /\ pc = "start"
    /\ uShape \in Shapes \cup {"triangle"}
    /\ coordsDims \in Grids(MaxUnits)
    /\ codebook \in [1..(coordsDims[1] * coordsDims[2]) -> WeightVecs]
    /\ sink = EmptySink
    /\ encErr = "none"
    /\ ret = "pending"
    /\ distMat = <<>>
    /\ coords = <<>>
    /\ coordsDistMat = <<>>
    /\ maxDistance = 0
    /\ heap = <<>>
    /\ svgElem = ZeroSvgElement
    /\ elems = <<>>
    /\ row = 0
    /\ nbrs = <<>>
    /\ idx = 0
    /\ avgDistance = ZeroAvg
    /\ color = NoColor
    /\ nanInt = "unset"

\* Lines 41-49, DistanceMx succeeding.
CodebookDistances ==
    /\ pc = "start"
    /\ sink' = NewEncoder(sink)
    /\ elems' = <<[XMLName |-> "h1", Title |-> Title]>>
    /\ distMat' = DistanceMx(codebook)
    /\ pc' = "gridCoords"
    /\ UNCHANGED <<uShape, coordsDims, codebook, encErr, ret, coords, coordsDistMat,
                   maxDistance, heap, svgElem, row, nbrs, idx, avgDistance, color,
                   nanInt>>

\* Lines 41-48, DistanceMx failing.
CodebookDistancesFail ==
    /\ pc = "start"
    /\ sink' = NewEncoder(sink)
    /\ elems' = <<[XMLName |-> "h1", Title |-> Title]>>
    /\ ret' = "DistanceMxError"
    /\ pc' = "done"
    /\ UNCHANGED <<uShape, coordsDims, codebook, encErr, distMat, coords,
                   coordsDistMat, maxDistance, heap, svgElem, row, nbrs, idx,
                   avgDistance, color, nanInt>>

\* Lines 50-53: GridCoords fails on a unit shape it does not know.
GridCoordinates ==
    /\ pc = "gridCoords"
    /\ IF uShape \in Shapes
       THEN /\ coords' = GridCoords(uShape, coordsDims)
            /\ pc' = "coordsDist"
            /\ ret' = ret
       ELSE /\ ret' = "GridCoordsError"
            /\ pc' = "done"
            /\ coords' = coords
    /\ UNCHANGED <<uShape, coordsDims, codebook, sink, encErr, distMat, coordsDistMat,
                   maxDistance, heap, svgElem, elems, row, nbrs, idx, avgDistance,
                   color, nanInt>>

\* Lines 54-74, DistanceMx succeeding: the grid distances, the maximum, the
\* svg element and its copy in elems, and the loop's entry.
CoordsDistances ==
    /\ pc = "coordsDist"
    /\ coordsDistMat' = CoordsDistanceMx(coords)
    /\ maxDistance' = MatMax(distMat)
    /\ LET made == MakePolygons(heap, N)
           elem == [XMLName |-> "svg", Width |-> SvgWidth(coordsDims),
                    Height |-> SvgHeight(coordsDims), Polygons |-> made.slice]
           app == AppendElem(elems, made.heap, elem)
       IN  /\ svgElem' = elem
           /\ elems' = app.elems
           /\ heap' = app.heap
    /\ row' = 1
    /\ pc' = IF 1 <= N THEN "rowBody" ELSE "encode"
    /\ UNCHANGED <<uShape, coordsDims, codebook, sink, encErr, ret, distMat, coords,
                   nbrs, idx, avgDistance, color, nanInt>>

\* Lines 54-57, DistanceMx failing.
CoordsDistancesFail ==
    /\ pc = "coordsDist"
    /\ ret' = "DistanceMxError"
    /\ pc' = "done"
    /\ UNCHANGED <<uShape, coordsDims, codebook, sink, encErr, distMat, coords,
                   coordsDistMat, maxDistance, heap, svgElem, elems, row, nbrs, idx,
                   avgDistance, color, nanInt>>

\* Lines 75-79: the loop body up to the neighbour search.
RowStart ==
    /\ pc = "rowBody"
    /\ avgDistance' = ZeroAvg
    /\ nbrs' = allRowsInRadius(row, Radius, coordsDistMat)
    /\ idx' = 1
    /\ pc' = "nbrLoop"
    /\ UNCHANGED <<uShape, coordsDims, codebook, sink, encErr, ret, distMat, coords,
                   coordsDistMat, maxDistance, heap, svgElem, elems, row, color,
                   nanInt>>

\* Lines 80-90: one iteration of the range loop, the Distance call
\* succeeding when it is made.
NeighborStep ==
    /\ pc = "nbrLoop"
    /\ idx <= Len(nbrs)
    /\ avgDistance' =
           IF nbrs[idx].Dist > 0
           THEN AddDist(avgDistance, Distance(codebook[row], codebook[nbrs[idx].Row]))
           ELSE avgDistance
    /\ idx' = idx + 1
    /\ UNCHANGED <<pc, uShape, coordsDims, codebook, sink, encErr, ret, distMat,
                   coords, coordsDistMat, maxDistance, heap, svgElem, elems, row,
                   nbrs, color, nanInt>>

\* Lines 81-86: the Distance call failing.
NeighborStepFail ==
    /\ pc = "nbrLoop"
    /\ idx <= Len(nbrs)
    /\ nbrs[idx].Dist > 0
    /\ ret' = "DistanceError"
    /\ pc' = "done"
    /\ UNCHANGED <<uShape, coordsDims, codebook, sink, encErr, distMat, coords,
                   coordsDistMat, maxDistance, heap, svgElem, elems, row, nbrs, idx,
                   avgDistance, color, nanInt>>

\* Lines 91-112: the average, the colour, the polygon and its store.
RowFinish ==
    /\ pc = "nbrLoop"
    /\ idx > Len(nbrs)
    /\ LET avg == DivideAvg(avgDistance, Len(nbrs) - 1)
       IN  /\ avgDistance' = avg
           /\ \E f \in ColorValues(avg, maxDistance) :
              \E ni \in (IF f.kind = "nan" /\ nanInt = "unset"
                         THEN NanIntChoices ELSE {nanInt}) :
                 /\ nanInt' = ni
                 /\ color' = IntOf(f, ni)
    /\ heap' = [heap EXCEPT ![svgElem.Polygons.ptr][row] =
                   [Points |-> PolygonPoints(coords[row], uShape),
                    Style |-> Style(color')]]
    /\ pc' = "rowDone"
    /\ UNCHANGED <<uShape, coordsDims, codebook, sink, encErr, ret, distMat, coords,
                   coordsDistMat, maxDistance, svgElem, elems, row, nbrs, idx>>

\* Line 74: row++ and the loop test.
NextRow ==
    /\ pc = "rowDone"
    /\ row' = row + 1
    /\ pc' = IF row + 1 <= N THEN "rowBody" ELSE "encode"
    /\ UNCHANGED <<uShape, coordsDims, codebook, sink, encErr, ret, distMat, coords,
                   coordsDistMat, maxDistance, heap, svgElem, elems, nbrs, idx,
                   avgDistance, color, nanInt>>

\* Line 115, the sink accepting every write: xmlEncoder.Encode(elems).
Encode ==
    /\ pc = "encode"
    /\ sink' = [state |-> "complete", doc |-> Marshal(elems, heap)]
    /\ pc' = "flush"
    /\ UNCHANGED <<uShape, coordsDims, codebook, encErr, ret, distMat, coords,
                   coordsDistMat, maxDistance, heap, svgElem, elems, row, nbrs, idx,
                   avgDistance, color, nanInt>>

\* Line 115, the sink rejecting a write, after taking none or some of the
\* document's bytes.  Encode's error is not looked at.
EncodeWriteFails ==
    /\ pc = "encode"
    /\ \E taken \in {"empty", "partial"} : sink' = [state |-> taken, doc |-> <<>>]
    /\ encErr' = "WriteFailure"
    /\ pc' = "flush"
    /\ UNCHANGED <<uShape, coordsDims, codebook, ret, distMat, coords, coordsDistMat,
                   maxDistance, heap, svgElem, elems, row, nbrs, idx, avgDistance,
                   color, nanInt>>

\* Lines 116-118: Flush has nothing left to write (or repeats the sticky
\* error, again not looked at); return nil.
FlushReturn ==
    /\ pc = "flush"
    /\ ret' = "nil"
    /\ pc' = "done"
    /\ UNCHANGED <<uShape, coordsDims, codebook, sink, encErr, distMat, coords,
                   coordsDistMat, maxDistance, heap, svgElem, elems, row, nbrs, idx,
                   avgDistance, color, nanInt>>

Next ==
    \/ CodebookDistances
    \/ CodebookDistancesFail
    \/ GridCoordinates
    \/ CoordsDistances
    \/ CoordsDistancesFail
    \/ RowStart
    \/ NeighborStep
    \/ NeighborStepFail
    \/ RowFinish
    \/ NextRow
    \/ Encode
    \/ EncodeWriteFails
    \/ FlushReturn

Spec == Init /\ [][Next]_vars

(***************************************************************************)
(* The row loop of UMatrixSVG on any layout: the coordinate matrix is any  *)
(* N x 2 matrix over a few positions of one line, two units at the same    *)
(* position included.                                                      *)
(***************************************************************************)
LayoutPoints ==
    {[x |-> [hp |-> h, hq |-> 0], y |-> [hp |-> 0, hq |-> 0]] : h \in {0, 2, 6}}

InitAgg ==
    /\ pc = "coordsDist"
    /\ uShape = "rectangle"
    /\ \E n \in 1..MaxAggUnits :
          /\ coordsDims = <<1, n>>
          /\ codebook \in [1..n -> WeightVecs]
          /\ coords \in [1..n -> LayoutPoints]
    /\ sink = EmptySink
    /\ encErr = "none"
    /\ ret = "pending"
    /\ distMat = DistanceMx(codebook)
    /\ coordsDistMat = <<>>
    /\ maxDistance = 0
    /\ heap = <<>>
    /\ svgElem = ZeroSvgElement
    /\ elems = <<[XMLName |-> "h1", Title |-> Title]>>
    /\ row = 0
    /\ nbrs = <<>>
    /\ idx = 0
    /\ avgDistance = ZeroAvg
    /\ color = NoColor
    /\ nanInt = "unset"

NextAgg ==
    \/ CoordsDistances
    \/ RowStart
    \/ NeighborStep
    \/ NeighborStepFail
    \/ RowFinish
    \/ NextRow

SpecAgg == InitAgg /\ [][NextAgg]_vars

(***************************************************************************)
(* allRowsInRadius called directly on the grids GridCoords produces.       *)
(***************************************************************************)
InitNbr ==
    /\ pc = "nbrCall"
    /\ uShape \in Shapes
    /\ coordsDims \in (1..MaxGrid) \X (1..MaxGrid)
    /\ codebook = <<>>
    /\ coords = GridCoords(uShape, coordsDims)
    /\ coordsDistMat = CoordsDistanceMx(coords)
    /\ sink = EmptySink
    /\ encErr = "none"
    /\ ret = "pending"
    /\ distMat = <<>>
    /\ maxDistance = 0
    /\ heap = <<>>
    /\ svgElem = ZeroSvgElement
    /\ elems = <<>>
    /\ row = 0
    /\ nbrs = <<>>
    /\ idx = 0
    /\ avgDistance = ZeroAvg
    /\ color = NoColor
    /\ nanInt = "unset"

\* allRowsInRadius(r, math.Sqrt2*1.01, coordsDistMat), as line 79 calls it.
CallAllRowsInRadius ==
    /\ pc \in {"nbrCall", "nbrReturned"}
    /\ \E r \in 1..Len(coords) :
          /\ row' = r
          /\ nbrs' = allRowsInRadius(r, Radius, coordsDistMat)
    /\ pc' = "nbrReturned"
    /\ UNCHANGED <<uShape, coordsDims, codebook, sink, encErr, ret, distMat, coords,
                   coordsDistMat, maxDistance, heap, svgElem, elems, idx,
                   avgDistance, color, nanInt>>

NextNbr == CallAllRowsInRadius

SpecNbr == InitNbr /\ [][NextNbr]_vars

(***************************************************************************)
(* Properties.                                                             *)
(***************************************************************************)
CollaboratorErrors == {"DistanceMxError", "GridCoordsError", "DistanceError"}

\* NeighborSet(r) of the data model: the units at grid distance below the
\* radius sqrt(2)*1.01 (4*d^2 < 8.1608).
NeighborSet(r) ==
    {j \in 1..Len(coordsDistMat) : coordsDistMat[r][j] * 10000 < 81608}

\* The arithmetic mean of the weight-space distances from unit r to the
\* units of S, as a number (a + b*sqrt(2))/k.
MeanOver(r, S) ==
    [kind |-> "num",
     a |-> Cardinality({j \in S : Distance(codebook[r], codebook[j]) = 1}),
     b |-> Cardinality({j \in S : Distance(codebook[r], codebook[j]) = 2}),
     k |-> Cardinality(S)]

\* c <= (1 - avg/max)*255 < c + 1.
InUnitInterval(avg, maxSq, c) ==
    /\ c \in 0..255
    /\ ScaledRatioLeq(avg, maxSq, 255 - c)
    /\ c < 255 => ~ScaledRatioLeq(avg, maxSq, 255 - c - 1)

\* The polygons of the document the sink holds.
EmittedPolygons == sink.doc[2].Polygons

\* C1: if the sink rejects a write during serialization, UMatrixSVG returns
\* a non-nil WriteFailure error, never nil.
C1_WriteFailureReturned ==
    (pc = "done" /\ encErr = "WriteFailure") => ret = "WriteFailure"

C3_IsolatedUnitDefined ==
    (pc = "rowDone" /\ Len(nbrs) = 1) =>
        (ret = "DegenerateInput" \/ avgDistance.kind = "num")

\* C4: when the maximum weight-space distance is 0, the render reports
\* DegenerateInput or applies a fallback; it never obtains a colour by
\* dividing by the zero maximum.
C4_ZeroMaximumDefined ==
    (pc = "rowDone" /\ maxDistance = 0 /\ Len(nbrs) > 1) =>
        (ret = "DegenerateInput" \/
         (RatioDefined(avgDistance, maxDistance) /\ nanInt = "unset"))

\* C5: in every emitted document each shape's fill is one integer in
\* [0,255] on all three channels.
C5_IntensityInRange ==
    sink.state = "complete" =>
        \A i \in 1..Len(EmittedPolygons) :
            LET fill == EmittedPolygons[i].Style.fill
            IN  /\ Len(fill) = 3
                /\ fill[1] = fill[2] /\ fill[2] = fill[3]
                /\ fill[1].kind = "int"
                /\ fill[1].v \in 0..255

\* C6: the emitted document is one title element and one canvas holding
\* exactly N shapes, the shape at position i being unit i's styled polygon.
C6_DocumentShape ==
    sink.state = "complete" =>
        /\ Len(sink.doc) = 2
        /\ sink.doc[1] = [XMLName |-> "h1", Title |-> Title]
        /\ sink.doc[2].XMLName = "svg"
        /\ Len(EmittedPolygons) = N
        /\ \A i \in 1..N :
              /\ EmittedPolygons[i].Points =
                     PolygonPoints(GridCoords(uShape, coordsDims)[i], uShape)
              /\ EmittedPolygons[i].Style.stroke = "black"
              /\ EmittedPolygons[i].Style.strokeWidth = 1
              /\ \E f \in ColorValues(MeanOver(i, NeighborSet(i) \ {i}), maxDistance) :
                    EmittedPolygons[i].Style.fill =
                        <<IntOf(f, nanInt), IntOf(f, nanInt), IntOf(f, nanInt)>>

C6_Witness ==
    /\ sink.state = "complete"
    /\ N = 4
    /\ uShape = "hexagon"

\* C7 as stated: with a positive maximum, a unit's intensity is
\* (1 - d/D_max)*255 rounded to the nearest integer.
C7_IntensityRounded ==
    (pc = "rowDone" /\ maxDistance > 0) =>
        /\ color.kind = "int"
        /\ color.v = RoundedValue(MeanOver(row, NeighborSet(row) \ {row}), maxDistance)

\* C7 amended: with a positive maximum, a unit's intensity is
\* (1 - d/D_max)*255 truncated toward zero, or one less when that product is
\* an exact integer strictly between 0 and 255 (which the float64 product
\* can fall just short of); on the 2x2 grid with weights
\* [0,0],[1,0],[0,1],[1,1] every unit has d = (2+sqrt(2))/3, D_max = sqrt(2)
\* and intensity 49.
C7_IntensityTruncated ==
    (pc = "rowDone" /\ maxDistance > 0) =>
        LET d == MeanOver(row, NeighborSet(row) \ {row})
        IN  /\ color.kind = "int"
            /\ \/ InUnitInterval(d, maxDistance, color.v)
               \/ /\ InUnitInterval(d, maxDistance, color.v + 1)
                  /\ ScaledRatioEq(d, maxDistance, 255 - (color.v + 1))
                  /\ color.v + 1 \in 1..254
            /\ (/\ coordsDims = <<2, 2>>
                /\ uShape = "rectangle"
                /\ codebook = << <<0, 0>>, <<1, 0>>, <<0, 1>>, <<1, 1>> >>) =>
                  /\ avgDistance = [kind |-> "num", a |-> 2, b |-> 1, k |-> 3]
                  /\ maxDistance = 2
                  /\ color.v = 49

C7_Witness ==
    /\ pc = "rowDone"
    /\ row = 4
    /\ coordsDims = <<2, 2>>
    /\ uShape = "rectangle"
    /\ codebook = << <<0, 0>>, <<1, 0>>, <<0, 1>>, <<1, 1>> >>
    /\ color = [kind |-> "int", v |-> 49]

\* C8: the canvas is cols*20 + 2*10 wide and rows*20 + 2*10 high, and all
\* five points of every unit's polygon lie within it, for rectangles and
\* hexagons.
C8_PolygonsWithinCanvas ==
    pc \in {"rowBody", "nbrLoop", "rowDone", "encode", "flush"} =>
        /\ svgElem.Width = Cols * 20 + 2 * 10
        /\ svgElem.Height = Rows * 20 + 2 * 10
        /\ \A i \in 1..N :
              LET poly == heap[svgElem.Polygons.ptr][i]
              IN  (i < row \/ (i = row /\ pc = "rowDone")) =>
                     /\ Len(poly.Points) = 5
                     /\ \A k \in 1..5 :
                           LET pt == poly.Points[k]
                               w == [p |-> svgElem.Width, q |-> 0]
                               h == [p |-> svgElem.Height, q |-> 0]
                           IN  /\ SurdGeqZero(pt.x)
                               /\ SurdGeqZero(SurdSub(w, pt.x))
                               /\ SurdGeqZero(pt.y)
                               /\ SurdGeqZero(SurdSub(h, pt.y))

C8_Witness ==
    /\ pc = "rowDone"
    /\ uShape = "hexagon"
    /\ coordsDims = <<2, 2>>
    /\ row = 4

GridRow(i) == (i - 1) \div Cols
GridCol(i) == (i - 1) % Cols
Interior(i) ==
    /\ GridRow(i) \in 1..(Rows - 2)
    /\ GridCol(i) \in 1..(Cols - 2)

\* The 8 orthogonal and diagonal neighbours on a rectangular grid.
RectNeighbors(i) ==
    {j \in 1..(Rows * Cols) :
        /\ j # i
        /\ GridRow(j) - GridRow(i) \in {-1, 0, 1}
        /\ GridCol(j) - GridCol(i) \in {-1, 0, 1}}

\* The 6 immediate neighbours on a hexagonal grid: the two beside the unit
\* and, in each adjacent row, the two units half a step to either side (odd
\* rows are shifted right by half a step).
HexNeighbors(i) ==
    {j \in 1..(Rows * Cols) :
        \/ GridRow(j) = GridRow(i) /\ GridCol(j) - GridCol(i) \in {-1, 1}
        \/ /\ GridRow(j) - GridRow(i) \in {-1, 1}
           /\ GridCol(j) - GridCol(i) \in
                  (IF GridRow(i) % 2 = 1 THEN {0, 1} ELSE {-1, 0})}

\* C10: allRowsInRadius(r, sqrt(2)*1.01, gridDist) returns exactly the units
\* strictly within the radius, each with its distance, r among them; for an
\* interior unit these are the unit and its 8 neighbours on a rectangular
\* grid, the unit and its 6 neighbours on a hexagonal grid.
C10_RowsInRadius ==
    pc = "nbrReturned" =>
        LET got == {nbrs[k].Row : k \in 1..Len(nbrs)}
        IN  /\ got = {j \in 1..Len(coords) : coordsDistMat[row][j] * 10000 < 81608}
            /\ Cardinality(got) = Len(nbrs)
            /\ \A k \in 1..Len(nbrs) : nbrs[k].Dist = coordsDistMat[row][nbrs[k].Row]
            /\ row \in got
            /\ (Interior(row) /\ uShape = "rectangle") =>
                  /\ got = {row} \cup RectNeighbors(row)
                  /\ Len(nbrs) = 9
            /\ (Interior(row) /\ uShape = "hexagon") =>
                  /\ got = {row} \cup HexNeighbors(row)
                  /\ Len(nbrs) = 7

C10_Witness ==
    /\ pc = "nbrReturned"
    /\ uShape = "hexagon"
    /\ coordsDims = <<3, 3>>
    /\ row = 5
    /\ Len(nbrs) = 7

====
